---- MODULE Spec2Model ----
(***************************************************************************)
(* Model of slr_screening_app.py (Key-Paper Helper): the cursor-paginated  *)
(* OpenAlex fetch loop (search_openalex), the abstract reconstruction      *)
(* (reconstruct_abstract), the author extraction of process_results and    *)
(* the co-authorship graph and centrality of calculate_author_centrality.  *)
(***************************************************************************)
EXTENDS Integers, Sequences, FiniteSets, TLC

VARIABLES
    \* ---- search_openalex ----
    search_title, search_abstract, search_keyword,  \* scope flags (arguments)
    max_results,      \* argument max_results
    all_results,      \* local all_results
    cursor,           \* local cursor
    total_count,      \* local total_count
    pc,               \* position in the function
    ret,              \* the returned pair (records, total_count)
    requests,         \* call log of requests.get: the params of each call
    lastResp,         \* what the last answered call got back
    delivered,        \* server side: every record sent in a 2xx page, in order
    \* ---- reconstruct_abstract ----
    inverted_index,   \* argument: the word -> positions mapping, or None
    abstract,         \* the returned string, as the sequence of its pieces
    ra_pc,            \* "call" before the call, "done" after it
    \* ---- process_results, calculate_author_centrality ----
    raw_results,      \* argument results of process_results: the raw works
    df,               \* the table process_results returns (its author_list column)
    row,              \* number of rows of df the loop of line 134 has consumed
    G,                \* the networkx graph: nodes in insertion order, edge weights
    g_pc,             \* position in process_results / calculate_author_centrality
    top_degree, top_betweenness   \* the returned lists

fetchVars == <<search_title, search_abstract, search_keyword, max_results,
               all_results, cursor, total_count, pc, ret, requests, lastResp,
               delivered>>

abstractVars == <<inverted_index, abstract, ra_pc>>

graphVars == <<raw_results, df, row, G, g_pc, top_degree, top_betweenness>>

vars == <<fetchVars, abstractVars, graphVars>>

notFetchVars == <<abstractVars, graphVars>>
notAbstractVars == <<fetchVars, graphVars>>
notGraphVars == <<fetchVars, abstractVars>>

(***************************************************************************)
(* Bounds of the model and values of the environment.                      *)
(***************************************************************************)
MaxMaxResults == 3      \* max_results is drawn from 0..MaxMaxResults
MaxPageLen == 2         \* the server sends at most this many results a page

Records == {"w1", "w2"}             \* opaque RawWork objects
Queries == {"team science"}
YearRange == <<2015, 2025>>         \* the arguments year_from, year_to
YearFrom == YearRange[1]
YearTo == YearRange[2]

PyNone == "<None>"                  \* Python's None (an absent JSON field)
\* what the server may put in meta.next_cursor
CursorVals == {PyNone, "", "c1", "c2"}
\* what the server may put in meta.count (0 also stands for an absent field)
Counts == 0 .. 2

Min(a, b) == IF a <= b THEN a ELSE b
Max(a, b) == IF a >= b THEN a ELSE b

SeqsUpTo(S, n) == UNION {[1..k -> S] : k \in 0..n}
Pages == SeqsUpTo(Records, MaxPageLen)

\* Python truthiness of a cursor value: None and "" are falsy
Truthy(c) == c \notin {PyNone, ""}

\* s[:n] of a Python list
PySliceTo(s, n) ==
    IF n >= 0 THEN SubSeq(s, 1, Min(n, Len(s)))
    ELSE SubSeq(s, 1, Max(Len(s) + n, 0))

(***************************************************************************)
(* search_openalex: construction of the request.                           *)
(***************************************************************************)
BASE_URL == "https://api.openalex.org/works"
PER_PAGE == 200
SELECT == "id,doi,title,publication_year,cited_by_count,type,authorships,primary_location,abstract_inverted_index"

\* f"publication_year:{year_from}-{year_to}", as the sequence of its pieces
BaseFilter(year_from, year_to) == <<"publication_year:", year_from, "-", year_to>>

\* dict.pop(key, None)
Pop(d, key) == [k \in DOMAIN d \ {key} |-> d[k]]

\* (variant: the test of line 44 without "and not search_keyword")
TitleOnlyWrong(t, a, k) == t /\ ~a
\* the mode tests of lines 44 and 48
TitleOnly(t, a, k) == t /\ ~a /\ ~k
AbstractOnly(t, a, k) == a /\ ~t /\ ~k

\* lines 35-51: the params dict of one page request
BuildParams(query, year_from, year_to, t, a, k, cur) ==
    LET base_filter == BaseFilter(year_from, year_to)
        params == [search |-> query,
                   filter |-> base_filter,
                   per_page |-> PER_PAGE,
                   cursor |-> cur,
                   select |-> SELECT]
    IN  IF TitleOnly(t, a, k)
        THEN [Pop(params, "search") EXCEPT
                 !["filter"] = base_filter \o <<",title.search:", query>>]
        ELSE IF AbstractOnly(t, a, k)
        THEN [Pop(params, "search") EXCEPT
                 !["filter"] = base_filter \o <<",abstract.search:", query>>]
        ELSE params

(***************************************************************************)
(* search_openalex: the loop.                                              *)
(***************************************************************************)
\* (variant: <= in place of <)
LoopTestOffByOne(results, max) == Len(results) <= max
\* line 34: while len(all_results) < max_results
LoopTest(results, max) == Len(results) < max

\* line 66: all_results.extend(results)
Extend(acc, results) == acc \o results

\* (variant: the cursor is not advanced)
NextCursorStale(cur, data) == cur
\* line 67: cursor = data.get("meta", {}).get("next_cursor")
NextCursor(cur, data) == data.next_cursor

\* line 57: total_count = data.get("meta", {}).get("count", 0)
TotalCount(data) == data.count

\* line 63: if not results: break
EmptyPage(results) == results = <<>>

\* (variant: no break on a missing cursor)
NoCursorNoBreak(cur) == FALSE
\* line 68: if not cursor: break
NoCursor(cur) == ~Truthy(cur)

\* (variant: the pages fetched before the failure are returned)
FailureReturnPartial(acc, total) == <<acc, total>>
\* line 60: return [], 0
FailureReturn(acc, total) == <<<<>>, 0>>

\* (variant: no truncation)
NormalReturnUncut(acc, max, total) == <<acc, total>>
\* line 73: return all_results[:max_results], total_count
NormalReturn(acc, max, total) == <<PySliceTo(acc, max), total>>

NoResp == [ok |-> FALSE, req |-> 0, results |-> <<>>, count |-> 0,
           next_cursor |-> PyNone]
NoRet == <<<<>>, -1>>

query == CHOOSE q \in Queries : TRUE

\* the state of a part of the program that is not running
NoIndex == [present |-> FALSE, items |-> <<>>]
EmptyGraph == [nodes |-> <<>>, weight |-> <<>>]
AbstractIdle ==
    /\ inverted_index = NoIndex
    /\ abstract = <<>>
    /\ ra_pc = "idle"
GraphIdle ==
    /\ raw_results = <<>>
    /\ df = <<>>
    /\ row = 0
    /\ G = EmptyGraph
    /\ g_pc = "idle"
    /\ top_degree = <<>>
    /\ top_betweenness = <<>>
FetchIdle ==
    /\ search_title = TRUE
    /\ search_abstract = TRUE
    /\ search_keyword = FALSE
    /\ max_results = 0
    /\ all_results = <<>>
    /\ cursor = "*"
    /\ total_count = 0
    /\ pc = "idle"
    /\ ret = NoRet
    /\ requests = <<>>
    /\ lastResp = NoResp
    /\ delivered = <<>>

InitFetch ==
    /\ AbstractIdle
    /\ GraphIdle
    /\ search_title \in BOOLEAN
    /\ search_abstract \in BOOLEAN
    /\ search_keyword \in BOOLEAN
    /\ max_results \in 0 .. MaxMaxResults
    /\ all_results = <<>>
    /\ cursor = "*"
    /\ total_count = 0
    /\ pc = "while"
    /\ ret = NoRet
    /\ requests = <<>>
    /\ lastResp = NoResp
    /\ delivered = <<>>

\* lines 34-54: the loop test holds; the params are built and the GET is sent
IssueRequest ==
    /\ pc = "while"
    /\ LoopTest(all_results, max_results)
    /\ requests' = Append(requests,
                     BuildParams(query, YearFrom, YearTo, search_title,
                                 search_abstract, search_keyword, cursor))
    /\ pc' = "get"
    /\ UNCHANGED <<search_title, search_abstract, search_keyword, max_results,
                   all_results, cursor, total_count, ret, lastResp, delivered>>
    /\ UNCHANGED notFetchVars

\* lines 34, 73: the loop test fails; return
LoopExit ==
    /\ pc = "while"
    /\ ~LoopTest(all_results, max_results)
    /\ ret' = NormalReturn(all_results, max_results, total_count)
    /\ pc' = "done"
    /\ UNCHANGED <<search_title, search_abstract, search_keyword, max_results,
                   all_results, cursor, total_count, requests, lastResp,
                   delivered>>
    /\ UNCHANGED notFetchVars

\* lines 54-60: requests.get, raise_for_status or response.json raises
RequestFails ==
    /\ pc = "get"
    /\ lastResp' = [NoResp EXCEPT !.req = Len(requests)]
    /\ ret' = FailureReturn(all_results, total_count)
    /\ pc' = "done"
    /\ UNCHANGED <<search_title, search_abstract, search_keyword, max_results,
                   all_results, cursor, total_count, requests, delivered>>
    /\ UNCHANGED notFetchVars

\* lines 54-73: a 2xx answer with a JSON body
ResponseArrives ==
    /\ pc = "get"
    /\ \E page \in Pages, cnt \in Counts, nc \in CursorVals :
         LET data == [results |-> page, count |-> cnt, next_cursor |-> nc]
             acc  == Extend(all_results, data.results)
             cur  == NextCursor(cursor, data)
         IN  /\ lastResp' = [ok |-> TRUE, req |-> Len(requests),
                             results |-> page, count |-> cnt,
                             next_cursor |-> nc]
             /\ delivered' = delivered \o page
             /\ total_count' = TotalCount(data)
             /\ IF EmptyPage(data.results)
                THEN /\ ret' = NormalReturn(all_results, max_results, total_count')
                     /\ pc' = "done"
                     /\ UNCHANGED <<all_results, cursor>>
                ELSE /\ all_results' = acc
                     /\ cursor' = cur
                     /\ IF NoCursor(cur)
                        THEN /\ ret' = NormalReturn(acc, max_results, total_count')
                             /\ pc' = "done"
                        ELSE /\ pc' = "while"
                             /\ UNCHANGED ret
    /\ UNCHANGED <<search_title, search_abstract, search_keyword, max_results,
                   requests>>
    /\ UNCHANGED notFetchVars

NextFetch == IssueRequest \/ LoopExit \/ RequestFails \/ ResponseArrives

SpecFetch == InitFetch /\ [][NextFetch]_vars

SpecFetchFair == InitFetch /\ [][NextFetch]_vars /\ WF_vars(NextFetch)

(***************************************************************************)
(* Properties of search_openalex.                                          *)
(***************************************************************************)
Failed == lastResp.req > 0 /\ ~lastResp.ok
Answered == lastResp.req > 0 /\ lastResp.ok
YearPredicate == <<"publication_year:", YearFrom, "-", YearTo>>

\* C1: when a page request fails (the first or a later one) the call returns
\* exactly ([], 0), whatever was accumulated before, and no request follows
\* the failing one.
C1_FailureDiscardsAll ==
    Failed => /\ pc = "done"
              /\ ret = <<<<>>, 0>>
              /\ Len(requests) = lastResp.req

\* a failure on the second page, after a first page that delivered records
C1_Witness ==
    /\ Failed
    /\ lastResp.req = 2
    /\ delivered # <<>>
    /\ pc = "done"

\* the first page answered with all N matches: 0 < N < max_results, count = N
FirstPageHoldsAll ==
    /\ Answered
    /\ lastResp.req = 1
    /\ Len(lastResp.results) > 0
    /\ Len(lastResp.results) < max_results
    /\ lastResp.count = Len(lastResp.results)

\* C2 (as stated): when the first page delivers all N matches (0 < N <
\* max_results, meta.count = N), no request follows the first one and the call
\* returns exactly those N records with total_count = N.
C2_Original ==
    FirstPageHoldsAll =>
        /\ Len(requests) = 1
        /\ pc = "done" => ret = <<lastResp.results, Len(lastResp.results)>>

\* C2 (amended): the same, provided the first page carries no next_cursor
\* (None or the empty string).
C2_SinglePageNoCursor ==
    (FirstPageHoldsAll /\ ~Truthy(lastResp.next_cursor)) =>
        /\ Len(requests) = 1
        /\ pc = "done" => ret = <<lastResp.results, Len(lastResp.results)>>

C2_Witness ==
    /\ FirstPageHoldsAll
    /\ ~Truthy(lastResp.next_cursor)
    /\ Len(lastResp.results) = 2
    /\ max_results = 3
    /\ pc = "done"

\* C3: the first request carries the cursor "*"; a later request is in flight
\* only if the previous one succeeded with a non-empty page and a non-empty
\* next_cursor while fewer than max_results records were accumulated, and it
\* carries that next_cursor; after a page with no results or no next_cursor
\* the call is over and no request followed.
C3_Pagination ==
    /\ Len(requests) >= 1 => requests[1].cursor = "*"
    /\ (pc = "get" /\ Len(requests) > 1) =>
          /\ Answered
          /\ lastResp.req = Len(requests) - 1
          /\ lastResp.results # <<>>
          /\ Truthy(lastResp.next_cursor)
          /\ Len(delivered) < max_results
          /\ requests[Len(requests)].cursor = lastResp.next_cursor
    /\ (Answered /\ (lastResp.results = <<>> \/ ~Truthy(lastResp.next_cursor))) =>
          /\ pc = "done"
          /\ Len(requests) = lastResp.req

\* a third request in flight, carrying the cursor of the second page
C3_Witness ==
    /\ pc = "get"
    /\ Len(requests) = 3
    /\ requests[2].cursor # requests[3].cursor

\* C4: a call that ends without a request failure returns the first
\* min(max_results, records fetched) records of the pages' concatenation, in
\* order, hence never more than max_results records.
C4_TruncatedPrefix ==
    (pc = "done" /\ ~Failed) =>
        LET n == Min(max_results, Len(delivered))
        IN  /\ Len(ret[1]) = n
            /\ \A i \in 1 .. n : ret[1][i] = delivered[i]
            /\ Len(ret[1]) <= max_results

\* the last page pushed the accumulated count above max_results
C4_Witness ==
    /\ pc = "done"
    /\ ~Failed
    /\ Len(delivered) > max_results
    /\ max_results > 0
    /\ Len(requests) >= 2

\* the mode each of the eight flag combinations selects
ExpectedMode(t, a, k) ==
    IF <<t, a, k>> = <<TRUE, FALSE, FALSE>> THEN "title"
    ELSE IF <<t, a, k>> = <<FALSE, TRUE, FALSE>> THEN "abstract"
    ELSE "combined"

C10_Terminates ==
    /\ <>(pc = "done")
    /\ [](Len(requests) <= max_results)
    /\ [][(pc = "get" /\ pc' = "while")
            => Len(all_results') > Len(all_results)]_vars

\* the cap ended a call that the server would have continued
C10_Witness ==
    /\ pc = "done"
    /\ max_results = 3
    /\ Len(requests) = 3
    /\ Answered
    /\ Truthy(lastResp.next_cursor)

(***************************************************************************)
(* reconstruct_abstract.  The mapping is a JSON object, a dict that        *)
(* iterates in the order of its keys in the document: the sequence of its  *)
(* (word, positions) items, the words distinct.  A string is the sequence  *)
(* of its pieces, a word or the separator " ".                             *)
(***************************************************************************)
MaxPosition == 2        \* positions are drawn from 0..MaxPosition
MaxPositions == 2       \* a word lists at most this many positions

Words == {"deep", "learning"}
PositionLists == SeqsUpTo(0 .. MaxPosition, MaxPositions)

\* the dicts over Words: every order of every subset of the words
IndexItems ==
    {it \in SeqsUpTo([word : Words, positions : PositionLists], Cardinality(Words)) :
        \A i, j \in 1 .. Len(it) : i # j => it[i].word # it[j].word}
InvertedIndexes ==
    {NoIndex} \cup {[present |-> TRUE, items |-> it] : it \in IndexItems}

\* lines 79-82: word_positions, the (pos, word) pairs in encounter order
RECURSIVE PairsOfWord(_, _)
PairsOfWord(word, positions) ==
    IF positions = <<>> THEN <<>>
    ELSE <<<<Head(positions), word>>>> \o PairsOfWord(word, Tail(positions))

RECURSIVE WordPositions(_)
WordPositions(items) ==
    IF items = <<>> THEN <<>>
    ELSE PairsOfWord(Head(items).word, Head(items).positions)
             \o WordPositions(Tail(items))

\* x put into the sorted list s behind every element whose key is <= its own
RECURSIVE InsertByKey(_, _)
InsertByKey(s, x) ==
    IF s = <<>> THEN <<x>>
    ELSE IF Head(s)[1] <= x[1] THEN <<Head(s)>> \o InsertByKey(Tail(s), x)
    ELSE <<x>> \o s

\* (variant) x put into the sorted list s before every element whose key is
\* >= its own
RECURSIVE InsertByKeyFirst(_, _)
InsertByKeyFirst(s, x) ==
    IF s = <<>> THEN <<x>>
    ELSE IF Head(s)[1] < x[1] THEN <<Head(s)>> \o InsertByKeyFirst(Tail(s), x)
    ELSE <<x>> \o s

RECURSIVE StableSort(_, _)
StableSort(sorted, rest) ==
    IF rest = <<>> THEN sorted
    ELSE StableSort(InsertByKey(sorted, Head(rest)), Tail(rest))

RECURSIVE UnstableSort(_, _)
UnstableSort(sorted, rest) ==
    IF rest = <<>> THEN sorted
    ELSE UnstableSort(InsertByKeyFirst(sorted, Head(rest)), Tail(rest))

\* (variant: a sort that reverses the elements of equal key)
SortByPositionUnstable(word_positions) == UnstableSort(<<>>, word_positions)
\* line 83: word_positions.sort(key=lambda x: x[0]); list.sort is stable
SortByPosition(word_positions) == StableSort(<<>>, word_positions)

\* " ".join(strings)
RECURSIVE JoinSpace(_)
JoinSpace(strings) ==
    IF strings = <<>> THEN <<>>
    ELSE IF Len(strings) = 1 THEN <<Head(strings)>>
    ELSE <<Head(strings), " ">> \o JoinSpace(Tail(strings))

\* lines 75-84
reconstruct_abstract(ii) ==
    IF ~ii.present \/ ii.items = <<>> THEN <<>>
    ELSE LET word_positions == SortByPosition(WordPositions(ii.items))
         IN  JoinSpace([i \in 1 .. Len(word_positions) |-> word_positions[i][2]])

InitAbstract ==
    /\ FetchIdle
    /\ GraphIdle
    /\ inverted_index \in InvertedIndexes
    /\ abstract = <<>>
    /\ ra_pc = "call"

\* line 124: the call reconstruct_abstract(work.get("abstract_inverted_index"))
ReconstructAbstract ==
    /\ ra_pc = "call"
    /\ abstract' = reconstruct_abstract(inverted_index)
    /\ ra_pc' = "done"
    /\ UNCHANGED inverted_index
    /\ UNCHANGED notAbstractVars

NextAbstract == ReconstructAbstract

SpecAbstract == InitAbstract /\ [][NextAbstract]_vars

(***************************************************************************)
(* Properties of reconstruct_abstract.                                     *)
(***************************************************************************)
\* the occurrences the mapping lists: <<k, j>> is the j-th position of the
\* k-th word of the mapping
Occurrences(ii) ==
    {<<k, j>> \in (1 .. Len(ii.items)) \X (1 .. MaxPositions + 1) :
        j <= Len(ii.items[k].positions)}
PosOf(ii, o) == ii.items[o[1]].positions[o[2]]
\* o comes before q: at a smaller position, or at the same position and
\* earlier in the mapping's iteration
Before(ii, o, q) ==
    \/ PosOf(ii, o) < PosOf(ii, q)
    \/ /\ PosOf(ii, o) = PosOf(ii, q)
       /\ \/ o[1] < q[1]
          \/ o[1] = q[1] /\ o[2] < q[2]
\* the place of occurrence o in the output: 1 + the number of those before it
PlaceOf(ii, o) == 1 + Cardinality({q \in Occurrences(ii) : Before(ii, q, o)})

\* C6: the output is the words joined by single spaces, one word for every
\* listed position, by ascending position, equal positions in the order of
\* the mapping's iteration; an empty or absent mapping gives the empty string.
C6_ReconstructAbstract ==
    ra_pc = "done" =>
        LET occ == Occurrences(inverted_index)
            n == Cardinality(occ)
        IN  /\ Len(abstract) = (IF n = 0 THEN 0 ELSE 2 * n - 1)
            /\ \A o \in occ :
                  abstract[2 * PlaceOf(inverted_index, o) - 1]
                      = inverted_index.items[o[1]].word
            /\ \A i \in 1 .. n - 1 : abstract[2 * i] = " "
            /\ (~inverted_index.present \/ inverted_index.items = <<>>)
                  => abstract = <<>>

\* the second word of the mapping claims a position the first one claims too,
\* and one below it
C6_Witness ==
    /\ ra_pc = "done"
    /\ inverted_index.present
    /\ Len(inverted_index.items) = 2
    /\ inverted_index.items[1].positions = <<1, 1>>
    /\ inverted_index.items[2].positions = <<1, 0>>
    /\ abstract = <<inverted_index.items[2].word, " ",
                    inverted_index.items[1].word, " ",
                    inverted_index.items[1].word, " ",
                    inverted_index.items[2].word>>

(***************************************************************************)
(* process_results (the author columns) and calculate_author_centrality.   *)
(* A raw work is the sequence of the display names of its authorships, ""  *)
(* for an authorship without one.  The graph G keeps its nodes in          *)
(* insertion order, as networkx does, and its edges as the function weight *)
(* from the edges {u, v} (a self-loop is the edge {u}) to their weights.   *)
(* A score is the fraction <<numerator, denominator>>.                     *)
(***************************************************************************)
MaxWorks == 2           \* the search returned at most this many works
MaxAuthorships == 3     \* a work lists at most this many authorships

AUTHORSHIPS_READ == 10  \* line 92: work.get("authorships", [])[:10]
AUTHORS_USED == 5       \* line 135: row['author_list'][:5]
TOP_N == 5              \* lines 154, 158: [:5]

DisplayNames == {"Ann", "Bo", "Cy"}
RawWorks == SeqsUpTo(DisplayNames \cup {""}, MaxAuthorships)

\* lines 90-96: the display names of the first 10 authorships that have one
RECURSIVE NonEmptyNames(_)
NonEmptyNames(names) ==
    IF names = <<>> THEN <<>>
    ELSE IF Head(names) # "" THEN <<Head(names)>> \o NonEmptyNames(Tail(names))
    ELSE NonEmptyNames(Tail(names))

AuthorNames(work) == NonEmptyNames(PySliceTo(work, AUTHORSHIPS_READ))

\* lines 86-127: one row for each work; author_list is the column kept here
process_results(works) ==
    [i \in 1 .. Len(works) |-> [author_list |-> AuthorNames(works[i])]]

Range(f) == {f[i] : i \in DOMAIN f}
NodeSet(g) == Range(g.nodes)
Edges(g) == DOMAIN g.weight

\* G.has_node / G.has_edge
HasNode(g, n) == n \in NodeSet(g)
HasEdge(g, u, v) == {u, v} \in Edges(g)

\* lines 137-138 (and add_edge for an endpoint that is no node yet)
AddNode(g, n) ==
    IF HasNode(g, n) THEN g ELSE [g EXCEPT !.nodes = Append(g.nodes, n)]

\* lines 141-144: the body of the loop over the pairs
AddPair(g, u, v) ==
    IF HasEdge(g, u, v)
    THEN [g EXCEPT !.weight = [g.weight EXCEPT ![{u, v}] = @ + 1]]
    ELSE LET h == AddNode(AddNode(g, u), v)
         IN  [h EXCEPT !.weight =
                  [e \in Edges(g) \cup {{u, v}} |->
                      IF e \in Edges(g) THEN g.weight[e] ELSE 1]]

\* itertools.combinations(authors, 2): the pairs of places i < j, in order
RECURSIVE PairsFrom(_, _, _)
PairsFrom(authors, i, j) ==
    IF i >= Len(authors) THEN <<>>
    ELSE IF j > Len(authors) THEN PairsFrom(authors, i + 1, i + 2)
    ELSE <<<<authors[i], authors[j]>>>> \o PairsFrom(authors, i, j + 1)

Combinations2(authors) == PairsFrom(authors, 1, 2)

RECURSIVE AddNodes(_, _)
AddNodes(g, authors) ==
    IF authors = <<>> THEN g
    ELSE AddNodes(AddNode(g, Head(authors)), Tail(authors))

RECURSIVE AddPairs(_, _)
AddPairs(g, pairs) ==
    IF pairs = <<>> THEN g
    ELSE AddPairs(AddPair(g, Head(pairs)[1], Head(pairs)[2]), Tail(pairs))

\* lines 135-144: the body of the loop over the rows
AddRowToGraph(g, r) ==
    LET authors == PySliceTo(r.author_list, AUTHORS_USED)
        h == AddNodes(g, authors)
    IN  IF Len(authors) >= 2 THEN AddPairs(h, Combinations2(authors)) ELSE h

\* G.degree(n): the edges at n, a self-loop counted twice
Degree(g, n) ==
    Cardinality({e \in Edges(g) : n \in e /\ e # {n}})
        + (IF {n} \in Edges(g) THEN 2 ELSE 0)

\* nx.isolates(G): the nodes of degree 0
Isolates(g) == {n \in NodeSet(g) : Degree(g, n) = 0}

RECURSIVE Without(_, _)
Without(nodes, gone) ==
    IF nodes = <<>> THEN <<>>
    ELSE IF Head(nodes) \in gone THEN Without(Tail(nodes), gone)
    ELSE <<Head(nodes)>> \o Without(Tail(nodes), gone)

\* line 147: G.remove_nodes_from(list(nx.isolates(G)))
RemoveIsolates(g) ==
    LET gone == Isolates(g)
    IN  [nodes |-> Without(g.nodes, gone),
         weight |-> [e \in {d \in Edges(g) : d \cap gone = {}} |-> g.weight[e]]]

\* nx.degree_centrality(G): degree / (n - 1) for every node, in node order
degree_centrality(g) ==
    [i \in 1 .. Len(g.nodes) |->
        <<g.nodes[i], <<Degree(g, g.nodes[i]), Len(g.nodes) - 1>>>>]

\* fractions with positive denominators
FracAdd(x, y) == <<x[1] * y[2] + y[1] * x[2], x[2] * y[2]>>
FracLess(x, y) == x[1] * y[2] < y[1] * x[2]

\* breadth-first search from a source: the distance of every node, -1 for a
\* node that is not reached (a self-loop leads to a node already seen)
RECURSIVE Bfs(_, _, _, _)
Bfs(g, frontier, dist, d) ==
    IF frontier = {} THEN dist
    ELSE LET next == {w \in NodeSet(g) :
                        dist[w] = -1 /\ \E u \in frontier : HasEdge(g, u, w)}
         IN  Bfs(g, next,
                 [w \in NodeSet(g) |-> IF w \in next THEN d + 1 ELSE dist[w]],
                 d + 1)

Distances(g, s) ==
    Bfs(g, {s}, [w \in NodeSet(g) |-> IF w = s THEN 0 ELSE -1], 0)

\* sigma: the number of shortest paths from s to t, the sum of the numbers
\* of shortest paths to the neighbours of t one step nearer to s
RECURSIVE Sigma(_, _, _)
RECURSIVE SumSigma(_, _, _, _)
Sigma(g, s, t) ==
    LET dist == Distances(g, s)
    IN  IF t = s THEN 1
        ELSE IF dist[t] = -1 THEN 0
        ELSE SumSigma(g, s, {u \in NodeSet(g) :
                                HasEdge(g, u, t) /\ dist[u] = dist[t] - 1}, 0)
SumSigma(g, s, preds, acc) ==
    IF preds = {} THEN acc
    ELSE LET u == CHOOSE x \in preds : TRUE
         IN  SumSigma(g, s, preds \ {u}, acc + Sigma(g, s, u))

\* the share of the shortest s-t paths that pass through v
PairDependency(g, s, t, v) ==
    LET ds == Distances(g, s)
        dv == Distances(g, v)
    IN  IF /\ ds[t] > 0
           /\ ds[v] > 0
           /\ dv[t] > 0
           /\ ds[v] + dv[t] = ds[t]
        THEN <<Sigma(g, s, v) * Sigma(g, v, t), Sigma(g, s, t)>>
        ELSE <<0, 1>>

RECURSIVE SumDependencies(_, _, _, _)
SumDependencies(g, pairs, v, acc) ==
    IF pairs = {} THEN acc
    ELSE LET p == CHOOSE x \in pairs : TRUE
         IN  SumDependencies(g, pairs \ {p}, v,
                             FracAdd(acc, PairDependency(g, p[1], p[2], v)))

\* nx.betweenness_centrality(G): Brandes' sum over every source s and target
\* t other than v, scaled by 1 / ((n - 1)(n - 2)) when n > 2 (normalized,
\* undirected, unweighted, endpoints not counted)
Betweenness(g, v) ==
    LET n == Len(g.nodes)
        others == NodeSet(g) \ {v}
        raw == SumDependencies(g, {p \in others \X others : p[1] # p[2]}, v,
                               <<0, 1>>)
    IN  IF n > 2 THEN <<raw[1], raw[2] * (n - 1) * (n - 2)>> ELSE raw

betweenness_centrality(g) ==
    [i \in 1 .. Len(g.nodes) |-> <<g.nodes[i], Betweenness(g, g.nodes[i])>>]

\* sorted(items, key=lambda x: x[1], reverse=True): by score descending, items
\* of equal score in their order in items
RECURSIVE InsertByScore(_, _)
InsertByScore(s, x) ==
    IF s = <<>> THEN <<x>>
    ELSE IF FracLess(Head(s)[2], x[2]) THEN <<x>> \o s
    ELSE <<Head(s)>> \o InsertByScore(Tail(s), x)

RECURSIVE SortedByScore(_, _)
SortedByScore(sorted, rest) ==
    IF rest = <<>> THEN sorted
    ELSE SortedByScore(InsertByScore(sorted, Head(rest)), Tail(rest))

\* lines 154 and 158
Top(items) == PySliceTo(SortedByScore(<<>>, items), TOP_N)

InitGraph ==
    /\ FetchIdle
    /\ AbstractIdle
    /\ raw_results \in SeqsUpTo(RawWorks, MaxWorks)
    /\ df = <<>>
    /\ row = 0
    /\ G = EmptyGraph
    /\ g_pc = "process"
    /\ top_degree = <<>>
    /\ top_betweenness = <<>>

\* line 245: df = process_results(results); line 131: G = nx.Graph()
ProcessResults ==
    /\ g_pc = "process"
    /\ df' = process_results(raw_results)
    /\ g_pc' = "rows"
    /\ UNCHANGED <<raw_results, row, G, top_degree, top_betweenness>>
    /\ UNCHANGED notGraphVars

\* lines 134-144: one iteration of the loop over the rows
AddRow ==
    /\ g_pc = "rows"
    /\ row < Len(df)
    /\ G' = AddRowToGraph(G, df[row + 1])
    /\ row' = row + 1
    /\ UNCHANGED <<raw_results, df, g_pc, top_degree, top_betweenness>>
    /\ UNCHANGED notGraphVars

\* line 147: the rows are consumed; the isolated nodes are removed
PruneIsolates ==
    /\ g_pc = "rows"
    /\ row = Len(df)
    /\ G' = RemoveIsolates(G)
    /\ g_pc' = "pruned"
    /\ UNCHANGED <<raw_results, df, row, top_degree, top_betweenness>>
    /\ UNCHANGED notGraphVars

\* lines 149-150: fewer than 2 nodes are left
InsufficientData ==
    /\ g_pc = "pruned"
    /\ Len(G.nodes) < 2
    /\ top_degree' = <<>>
    /\ top_betweenness' = <<>>
    /\ g_pc' = "done"
    /\ UNCHANGED <<raw_results, df, row, G>>
    /\ UNCHANGED notGraphVars

\* lines 149-160: the centralities and their top 5
ComputeCentrality ==
    /\ g_pc = "pruned"
    /\ ~(Len(G.nodes) < 2)
    /\ top_degree' = Top(degree_centrality(G))
    /\ top_betweenness' = Top(betweenness_centrality(G))
    /\ g_pc' = "done"
    /\ UNCHANGED <<raw_results, df, row, G>>
    /\ UNCHANGED notGraphVars

NextGraph ==
    \/ ProcessResults
    \/ AddRow
    \/ PruneIsolates
    \/ InsufficientData
    \/ ComputeCentrality

SpecGraph == InitGraph /\ [][NextGraph]_vars

(***************************************************************************)
(* Properties of the co-authorship graph and the centralities.             *)
(***************************************************************************)
\* the authors of row i that the graph is built from
UsedAuthors(i) == Range(PySliceTo(df[i].author_list, AUTHORS_USED))
\* the number of consumed rows that list both u and v
SharedRows(u, v) == Cardinality({i \in 1 .. row : {u, v} \subseteq UsedAuthors(i)})
SelfLoops(g) == {e \in Edges(g) : Cardinality(e) = 1}
InUnitInterval(x) == 0 <= x[1] /\ x[1] <= x[2]
Descending(items) ==
    \A i \in 1 .. Len(items) - 1 : ~FracLess(items[i][2], items[i + 1][2])

\* C7: before pruning, two authors are joined by an edge exactly when some
\* consumed record lists both among its first 5 authors, and the weight of the
\* edge is the number of the records that do.
C7_EdgeWeights ==
    g_pc = "rows" =>
        \A u, v \in DisplayNames :
            u # v =>
                /\ HasEdge(G, u, v) <=> SharedRows(u, v) > 0
                /\ HasEdge(G, u, v) => G.weight[{u, v}] = SharedRows(u, v)

\* C8: the graph the centralities are computed on has no self-loop, no edge
\* of weight below 1 and no node of degree 0.
C8_GraphInvariant ==
    (g_pc \in {"pruned", "done"} /\ Len(G.nodes) >= 2) =>
        /\ SelfLoops(G) = {}
        /\ \A e \in Edges(G) : G.weight[e] >= 1
        /\ \A n \in NodeSet(G) : Degree(G, n) > 0

\* C9: every returned score lies in [0, 1], each list holds at most 5 pairs
\* by descending score, and both lists are empty when fewer than 2 nodes are
\* left after pruning.
C9_Scores ==
    g_pc = "done" =>
        /\ \A i \in 1 .. Len(top_degree) : InUnitInterval(top_degree[i][2])
        /\ \A i \in 1 .. Len(top_betweenness) :
              InUnitInterval(top_betweenness[i][2])
        /\ Len(top_degree) <= 5 /\ Len(top_betweenness) <= 5
        /\ Descending(top_degree) /\ Descending(top_betweenness)
        /\ Len(G.nodes) < 2 => top_degree = <<>> /\ top_betweenness = <<>>

====
